---- MODULE Spec2Model ----
(***************************************************************************)
(* Model of revanced/static-api: the GitHub API client (src/app/api.py)    *)
(* and the generator driver loop (src/main.py).                            *)
(*                                                                         *)
(* JSON objects are functions from field names to values, JSON arrays are  *)
(* sequences.  A raw response is a record [kind, value] with kind "array"  *)
(* or "object"; a call's outcome is a record [kind, ...] with kind "list", *)
(* "dict", "bool" or "error".                                              *)
(***************************************************************************)
EXTENDS Integers, Sequences, FiniteSets, TLC

VARIABLES client, api_key, pc, call, request, sent, first, payload, outcome,
          apis, output, pos, pcD, resolved, calls, error

apiVars == <<client, api_key, pc, call, request, sent, first, payload, outcome>>
driverVars == <<apis, output, pos, pcD, resolved, calls, error>>
vars == <<client, api_key, pc, call, request, sent, first, payload, outcome,
          apis, output, pos, pcD, resolved, calls, error>>

(***************************************************************************)
(* Bounds of the input domains.                                            *)
(***************************************************************************)
MaxReleases == 2
MaxAssets == 2
MaxContributors == 3
MaxContributions == 2
MaxMembers == 3
MaxRemaining == 2
MaxEntries == 2
MaxNames == 2

SeqUpTo(S, n) == UNION {[1..k -> S] : k \in 0..n}

Drop(obj, key) == [k \in (DOMAIN obj) \ {key} |-> obj[k]]

Has(obj, keys) == keys \subseteq DOMAIN obj

(***************************************************************************)
(* Raw responses of the vendor API (the inputs of the client).             *)
(***************************************************************************)
ErrorBody == [message |-> "Not Found"]

SampleAsset == [name |-> "app.apk", browser_download_url |-> "dl"]

RawReleasesWF ==
    [tag_name : {"", "v1"}, prerelease : BOOLEAN, published_at : {"t"},
     assets : SeqUpTo({SampleAsset}, MaxAssets)]

SampleRelease ==
    [tag_name |-> "v1", prerelease |-> FALSE, published_at |-> "t",
     assets |-> <<SampleAsset>>]

\* Well-formed releases, plus releases that lack one extracted field, plus
\* releases one of whose assets lacks one extracted field.
RawReleases ==
    RawReleasesWF
        \cup {Drop(SampleRelease, k) : k \in DOMAIN SampleRelease}
        \cup {[SampleRelease EXCEPT !.assets = <<Drop(SampleAsset, k)>>] :
                 k \in DOMAIN SampleAsset}

RawContributorsWF ==
    [login : {"a", "b"}, avatar_url : {"img"}, html_url : {"url"},
     contributions : 0..MaxContributions]

SampleContributor ==
    [login |-> "a", avatar_url |-> "img", html_url |-> "url", contributions |-> 1]

RawContributors ==
    RawContributorsWF \cup {Drop(SampleContributor, k) : k \in DOMAIN SampleContributor}

RawMembersWF == [login : {"a", "b"}, avatar_url : {"img"}, html_url : {"url"}]

SampleMember == [login |-> "a", avatar_url |-> "img", html_url |-> "url"]

RawMembers == RawMembersWF \cup {Drop(SampleMember, k) : k \in DOMAIN SampleMember}

Array(s) == [kind |-> "array", value |-> s]

Object(o) == [kind |-> "object", value |-> o]

ReleasesPayloads ==
    {Array(s) : s \in SeqUpTo(RawReleases, MaxReleases)} \cup {Object(ErrorBody)}

LatestPayloads ==
    {Object(r) : r \in RawReleases} \cup {Object(ErrorBody)}
        \cup {Array(s) : s \in SeqUpTo(RawReleasesWF, MaxReleases)}

ContributorsPayloads ==
    {Array(s) : s \in SeqUpTo(RawContributors, MaxContributors)} \cup {Object(ErrorBody)}

MembersPayloads ==
    {Array(s) : s \in SeqUpTo(RawMembers, MaxMembers)} \cup {Object(ErrorBody)}

RateLimitPayloads ==
    {Object([rate |-> [remaining |-> n]]) : n \in 0..MaxRemaining}
        \cup {Object([rate |-> [limit |-> 60]]), Object(ErrorBody)}

(***************************************************************************)
(* Outcomes.                                                               *)
(***************************************************************************)
Raise(exc) == [kind |-> "error", exc |-> exc]

ReturnList(s) == [kind |-> "list", value |-> s]

ReturnDict(d) == [kind |-> "dict", value |-> d]

ReturnBool(b) == [kind |-> "bool", value |-> b]

NoOutcome == [kind |-> "none"]

NoPayload == [kind |-> "none"]

(***************************************************************************)
(* GitHubApi.get_release                                                   *)
(***************************************************************************)
AssetKeys == {"name", "browser_download_url"}

ReleaseKeys == {"tag_name", "prerelease", "published_at", "assets"}

ReleaseOk(release) ==
    /\ Has(release, ReleaseKeys)
    /\ \A a \in DOMAIN release.assets : Has(release.assets[a], AssetKeys)

transform_release_no_assets(release) ==
    [tag |-> release.tag_name,
     prerelease |-> release.prerelease,
     published_at |-> release.published_at,
     assets |-> <<>>]

transform_release(release) ==
    [tag |-> release.tag_name,
     prerelease |-> release.prerelease,
     published_at |-> release.published_at,
     assets |-> [a \in DOMAIN release.assets |->
                    [name |-> release.assets[a].name,
                     download_url |-> release.assets[a].browser_download_url]]]

\* list(map(transform, p)): a dict payload iterates over its (string) keys,
\* and subscripting a string with a field name raises TypeError.
get_release_all(p) ==
    IF p.kind = "object" THEN Raise("TypeError")
    ELSE IF \A n \in DOMAIN p.value : ReleaseOk(p.value[n])
         THEN ReturnList([n \in DOMAIN p.value |-> transform_release(p.value[n])])
         ELSE Raise("KeyError")

get_release_latest_as_list(p) ==
    IF p.kind = "array" THEN Raise("TypeError")
    ELSE IF ReleaseOk(p.value) THEN ReturnList(<<transform_release(p.value)>>)
         ELSE Raise("KeyError")

get_release_latest(p) ==
    IF p.kind = "array" THEN Raise("TypeError")
    ELSE IF ReleaseOk(p.value) THEN ReturnDict(transform_release(p.value))
         ELSE Raise("KeyError")

get_release(p, all) == IF all THEN get_release_all(p) ELSE get_release_latest(p)

(***************************************************************************)
(* GitHubApi.get_contributor                                               *)
(***************************************************************************)
ContributorKeys == {"login", "avatar_url", "html_url", "contributions"}

transform_contributor(contributor) ==
    [username |-> contributor.login,
     avatar |-> contributor.avatar_url,
     link |-> contributor.html_url,
     contributions |-> contributor.contributions]

\* The key function returns the count and deletes it from the entry.
sort_and_delete_key(contributor) ==
    [key |-> contributor.contributions,
     item |-> Drop(contributor, "contributions")]

\* Position at which a stable descending sort inserts an entry with key k
\* into an already sorted prefix: after every entry whose key is >= k.
RECURSIVE InsertDescending(_, _)
InsertDescending(sorted, x) ==
    IF sorted = <<>> THEN <<x>>
    ELSE IF Head(sorted).key >= x.key
         THEN <<Head(sorted)>> \o InsertDescending(Tail(sorted), x)
         ELSE <<x>> \o sorted

RECURSIVE InsertAscending(_, _)
InsertAscending(sorted, x) ==
    IF sorted = <<>> THEN <<x>>
    ELSE IF Head(sorted).key <= x.key
         THEN <<Head(sorted)>> \o InsertAscending(Tail(sorted), x)
         ELSE <<x>> \o sorted

RECURSIVE SortAscending(_, _)
SortAscending(keyed, n) ==
    IF n = 0 THEN <<>>
    ELSE InsertAscending(SortAscending(keyed, n - 1), keyed[n])

list_sort_ascending(keyed) == SortAscending(keyed, Len(keyed))

RECURSIVE SortDescending(_, _)
SortDescending(keyed, n) ==
    IF n = 0 THEN <<>>
    ELSE InsertDescending(SortDescending(keyed, n - 1), keyed[n])

\* list.sort(key=..., reverse=True): the keys are computed once per entry,
\* then the entries are sorted by key, descending and stable.
list_sort(keyed) == SortDescending(keyed, Len(keyed))

get_contributor(p) ==
    IF p.kind = "object" THEN Raise("TypeError")
    ELSE IF \A n \in DOMAIN p.value : Has(p.value[n], ContributorKeys)
         THEN LET contributors == [n \in DOMAIN p.value |->
                                      transform_contributor(p.value[n])]
                  keyed == [n \in DOMAIN contributors |->
                               sort_and_delete_key(contributors[n])]
                  sorted == list_sort(keyed)
              IN ReturnList([n \in DOMAIN sorted |-> sorted[n].item])
         ELSE Raise("KeyError")

(***************************************************************************)
(* GitHubApi.get_members                                                   *)
(***************************************************************************)
MemberKeys == {"login", "avatar_url", "html_url"}

transform_team_member_swapped(member) ==
    [username |-> member.login,
     avatar |-> member.html_url,
     link |-> member.avatar_url]

transform_team_member(member) ==
    [username |-> member.login,
     avatar |-> member.avatar_url,
     link |-> member.html_url]

RECURSIVE KeepWellFormed(_)
KeepWellFormed(members) ==
    IF members = <<>> THEN <<>>
    ELSE IF Has(Head(members), MemberKeys)
         THEN <<Head(members)>> \o KeepWellFormed(Tail(members))
         ELSE KeepWellFormed(Tail(members))

get_members_skip_malformed(p) ==
    IF p.kind = "object" THEN Raise("TypeError")
    ELSE LET kept == KeepWellFormed(p.value)
         IN ReturnList([n \in DOMAIN kept |-> transform_team_member(kept[n])])

get_members(p) ==
    IF p.kind = "object" THEN Raise("TypeError")
    ELSE IF \A n \in DOMAIN p.value : Has(p.value[n], MemberKeys)
         THEN ReturnList([n \in DOMAIN p.value |-> transform_team_member(p.value[n])])
         ELSE Raise("KeyError")

(***************************************************************************)
(* GitHubApi.is_rate_limited                                               *)
(***************************************************************************)
HasRemaining(p) ==
    /\ p.kind = "object"
    /\ Has(p.value, {"rate"})
    /\ Has(p.value.rate, {"remaining"})

is_rate_limited_at_most_one(p) ==
    IF HasRemaining(p) THEN ReturnBool(p.value.rate.remaining <= 1)
    ELSE Raise("KeyError")

is_rate_limited(p) ==
    IF HasRemaining(p) THEN ReturnBool(p.value.rate.remaining = 0)
    ELSE Raise("KeyError")

(***************************************************************************)
(* The client as a state machine: every operation issues one GET and       *)
(* suspends until the response arrives.                                    *)
(***************************************************************************)
Url(path, query) == [path |-> path, prerelease |-> query]

NoRequest == Url("", "")

RateLimitUrl == Url("rate_limit", "")

ReleaseUrl(all, prerelease) ==
    IF all THEN Url("repos/releases", "")
    ELSE Url("repos/releases/latest", IF prerelease THEN "True" ELSE "False")

ContributorsUrl == Url("repos/contributors", "")

MembersUrl == Url("orgs/members", "")

Call(op, all, prerelease) == [op |-> op, all |-> all, prerelease |-> prerelease]

NoCall == Call("none", FALSE, FALSE)

\* async with self._client_session.get(url): the request goes out and the
\* calling task is suspended.
Get(c, url) ==
    /\ pc' = "awaiting"
    /\ call' = c
    /\ request' = url
    /\ sent' = 1
    /\ first' = IF first = NoRequest THEN url ELSE first
    /\ payload' = NoPayload
    /\ outcome' = NoOutcome

\* The response arrives and the operation runs to its return or raise.
Resume(p, result) ==
    /\ pc' = "idle"
    /\ payload' = p
    /\ outcome' = result
    /\ UNCHANGED <<call, request, sent, first>>

ApiInit ==
    /\ client = "none"
    /\ api_key = "unset"
    /\ pc = "idle"
    /\ call = NoCall
    /\ request = NoRequest
    /\ sent = 0
    /\ first = NoRequest
    /\ payload = NoPayload
    /\ outcome = NoOutcome

DriverIdle ==
    /\ apis = <<>>
    /\ output = "none"
    /\ pos = <<1, 1>>
    /\ pcD = "off"
    /\ resolved = <<>>
    /\ calls = <<>>
    /\ error = "none"

Init == ApiInit /\ DriverIdle

\* GitHubApi() -> Api.__init__: run is_rate_limited() to completion first.
Construct ==
    /\ client = "none"
    /\ pc = "idle"
    /\ client' = "constructing"
    /\ Get(Call("is_rate_limited", FALSE, FALSE), RateLimitUrl)
    /\ UNCHANGED api_key
    /\ UNCHANGED driverVars

InitAlwaysSucceeds(result) == "ready"

\* Api.__init__ after the check: raise when limited, else keep the instance.
InitResult(result) ==
    IF result.kind = "bool" /\ ~result.value THEN "ready" ELSE "failed"

IsRateLimitedSend ==
    /\ client = "ready"
    /\ pc = "idle"
    /\ Get(Call("is_rate_limited", FALSE, FALSE), RateLimitUrl)
    /\ UNCHANGED <<client, api_key>>
    /\ UNCHANGED driverVars

IsRateLimitedRecv ==
    /\ pc = "awaiting"
    /\ call.op = "is_rate_limited"
    /\ \E p \in RateLimitPayloads :
          LET result == is_rate_limited(p) IN
          /\ Resume(p, result)
          /\ IF client = "constructing"
             THEN /\ client' = InitResult(result)
                  /\ api_key' = IF client' = "ready" THEN "None" ELSE api_key
             ELSE UNCHANGED <<client, api_key>>
    /\ UNCHANGED driverVars

GetReleaseSend ==
    /\ client = "ready"
    /\ pc = "idle"
    /\ \E all \in BOOLEAN, prerelease \in BOOLEAN :
          Get(Call("get_release", all, prerelease), ReleaseUrl(all, prerelease))
    /\ UNCHANGED <<client, api_key>>
    /\ UNCHANGED driverVars

GetReleaseRecv ==
    /\ pc = "awaiting"
    /\ call.op = "get_release"
    /\ \E p \in (IF call.all THEN ReleasesPayloads ELSE LatestPayloads) :
          Resume(p, get_release(p, call.all))
    /\ UNCHANGED <<client, api_key>>
    /\ UNCHANGED driverVars

GetContributorSend ==
    /\ client = "ready"
    /\ pc = "idle"
    /\ Get(Call("get_contributor", FALSE, FALSE), ContributorsUrl)
    /\ UNCHANGED <<client, api_key>>
    /\ UNCHANGED driverVars

GetContributorRecv ==
    /\ pc = "awaiting"
    /\ call.op = "get_contributor"
    /\ \E p \in ContributorsPayloads : Resume(p, get_contributor(p))
    /\ UNCHANGED <<client, api_key>>
    /\ UNCHANGED driverVars

GetMembersSend ==
    /\ client = "ready"
    /\ pc = "idle"
    /\ Get(Call("get_members", FALSE, FALSE), MembersUrl)
    /\ UNCHANGED <<client, api_key>>
    /\ UNCHANGED driverVars

GetMembersRecv ==
    /\ pc = "awaiting"
    /\ call.op = "get_members"
    /\ \E p \in MembersPayloads : Resume(p, get_members(p))
    /\ UNCHANGED <<client, api_key>>
    /\ UNCHANGED driverVars

Next ==
    \/ Construct
    \/ IsRateLimitedSend
    \/ IsRateLimitedRecv
    \/ GetReleaseSend
    \/ GetReleaseRecv
    \/ GetContributorSend
    \/ GetContributorRecv
    \/ GetMembersSend
    \/ GetMembersRecv

Spec == Init /\ [][Next]_vars

(***************************************************************************)
(* Properties of the client.                                               *)
(***************************************************************************)
Returned(op) == pc = "idle" /\ call.op = op /\ payload.kind # "none"

Injections(n) == {f \in [1..n -> 1..n] : \A a, b \in 1..n : a # b => f[a] # f[b]}

DistinctCounts(raw) ==
    \A a, b \in DOMAIN raw : a # b => raw[a].contributions # raw[b].contributions

C1_Case ==
    /\ Returned("get_contributor")
    /\ payload.kind = "array"
    /\ Len(payload.value) >= 2
    /\ \A n \in DOMAIN payload.value : Has(payload.value[n], ContributorKeys)
    /\ DistinctCounts(payload.value)

\* C1: for a raw contributor list of at least 2 entries with pairwise
\* distinct contribution counts, get_contributor returns the entries in
\* strictly descending order of their original counts, and no returned entry
\* has a contributions field.
C1_SortedDescendingAndStripped ==
    C1_Case =>
        /\ outcome.kind = "list"
        /\ Len(outcome.value) = Len(payload.value)
        /\ \A n \in DOMAIN outcome.value : "contributions" \notin DOMAIN outcome.value[n]
        /\ \E f \in Injections(Len(payload.value)) :
              /\ \A n \in DOMAIN outcome.value :
                    outcome.value[n] = [username |-> payload.value[f[n]].login,
                                        avatar |-> payload.value[f[n]].avatar_url,
                                        link |-> payload.value[f[n]].html_url]
              /\ \A m, n \in DOMAIN outcome.value :
                    m < n => payload.value[f[m]].contributions
                                > payload.value[f[n]].contributions

C1_Witness ==
    /\ C1_Case
    /\ Len(payload.value) = 3
    /\ payload.value[1].contributions < payload.value[2].contributions
    /\ payload.value[1].login # payload.value[2].login
    /\ outcome.kind = "list"
    /\ outcome.value[1].username = payload.value[2].login

C2_Case ==
    /\ Returned("get_release")
    /\ call.all
    /\ payload.kind = "array"
    /\ \A n \in DOMAIN payload.value : ReleaseOk(payload.value[n])

C2_Shape ==
    /\ outcome.kind = "list"
    /\ Len(outcome.value) = Len(payload.value)
    /\ \A n \in DOMAIN outcome.value :
          /\ outcome.value[n].tag = payload.value[n].tag_name
          /\ outcome.value[n].prerelease = payload.value[n].prerelease
          /\ outcome.value[n].published_at = payload.value[n].published_at
          /\ Len(outcome.value[n].assets) = Len(payload.value[n].assets)

\* C2 as stated: get_release(all=True) returns one transformed entry per raw
\* release in input order, each with a non-empty tag and as many assets as
\* the raw release.
C2_AsStated ==
    C2_Case => C2_Shape /\ \A n \in DOMAIN outcome.value : outcome.value[n].tag # ""

\* C2 (amended): get_release(all=True) returns one transformed entry per raw
\* release in input order, each with the raw release's tag_name as its tag
\* (empty when the raw tag_name is empty) and as many assets as the raw
\* release.
C2_OnePerReleaseInOrder == C2_Case => C2_Shape

C2_Witness ==
    /\ C2_Case
    /\ Len(payload.value) = 2
    /\ payload.value[1].tag_name # payload.value[2].tag_name
    /\ Len(payload.value[1].assets) = 2
    /\ Len(payload.value[2].assets) = 0
    /\ outcome.kind = "list"
    /\ Len(outcome.value[1].assets) = 2

PayloadReleases ==
    IF payload.kind = "array" THEN payload.value ELSE <<payload.value>>

C3_Case ==
    /\ Returned("get_release")
    /\ ~call.all
    /\ ~call.prerelease
    /\ PayloadReleases # <<>>
    /\ \A n \in DOMAIN PayloadReleases : ReleaseOk(PayloadReleases[n])

\* C3 as stated: get_release(all=False, prerelease=False) returns a single
\* transformed entry, which is not flagged prerelease when the raw payload
\* holds a non-prerelease release.
C3_AsStated ==
    C3_Case =>
        /\ outcome.kind = "dict"
        /\ (\E n \in DOMAIN PayloadReleases : ~PayloadReleases[n].prerelease)
              => ~outcome.value.prerelease

\* C3 (amended): get_release(all=False, prerelease=False) on a raw payload
\* that is one release object returns a single transformed entry (not a
\* list) whose prerelease flag is the payload's own flag; the client selects
\* nothing itself, and a payload holding a list of releases raises.
C3_SingleEntryAsServed ==
    C3_Case =>
        IF payload.kind = "object"
        THEN /\ outcome.kind = "dict"
             /\ outcome.value.tag = payload.value.tag_name
             /\ outcome.value.prerelease = payload.value.prerelease
        ELSE outcome.kind = "error"

C3_Witness ==
    /\ C3_Case
    /\ payload.kind = "object"
    /\ payload.value.prerelease
    /\ request = Url("repos/releases/latest", "False")
    /\ outcome.kind = "dict"
    /\ outcome.value.prerelease

\* C4: is_rate_limited() returns true exactly when the raw payload's
\* remaining count is zero, and false for every positive remaining count.
C4_LimitedIffZeroRemaining ==
    (Returned("is_rate_limited") /\ HasRemaining(payload)) =>
        /\ outcome.kind = "bool"
        /\ outcome.value <=> (payload.value.rate.remaining = 0)
        /\ payload.value.rate.remaining > 0 => ~outcome.value

C4_Witness ==
    /\ Returned("is_rate_limited")
    /\ client = "ready"
    /\ HasRemaining(payload)
    /\ payload.value.rate.remaining = 0
    /\ outcome.kind = "bool"
    /\ outcome.value

C5_CheckFirst ==
    /\ client # "none" => first = RateLimitUrl
    /\ client \in {"none", "constructing", "failed"} => request \in {NoRequest, RateLimitUrl}
    /\ client = "constructing" => pc = "awaiting" /\ call.op = "is_rate_limited"
    /\ client = "failed" => pc = "idle" /\ api_key = "unset"

C5_Decides ==
    (client = "constructing" /\ client' # "constructing" /\ HasRemaining(payload')) =>
        /\ payload'.value.rate.remaining = 0 => client' = "failed"
        /\ payload'.value.rate.remaining > 0 => client' = "ready"

C5_OperationNeedsInstance ==
    (call'.op \in {"get_release", "get_contributor", "get_members"} /\ pc' = "awaiting")
        => client = "ready" /\ client' = "ready"

\* C5: constructing the client runs the rate-limit check before any other
\* request; zero remaining makes construction fail and leaves no usable
\* instance, a positive remaining count lets construction succeed.
C5_FailFastConstruction ==
    /\ []C5_CheckFirst
    /\ [][C5_Decides]_vars
    /\ [][C5_OperationNeedsInstance]_vars
    /\ [][client = "failed" => client' = "failed"]_vars

C5_Witness ==
    /\ client = "failed"
    /\ HasRemaining(payload)
    /\ payload.value.rate.remaining = 0
    /\ sent = 1

\* C8: get_members returns exactly one entry per raw member in the order of
\* the response, each with exactly the fields username, avatar and link
\* taken from login, avatar_url and html_url.
C8_MembersRenamedInOrder ==
    (/\ Returned("get_members")
     /\ payload.kind = "array"
     /\ \A n \in DOMAIN payload.value : Has(payload.value[n], MemberKeys)) =>
        /\ outcome.kind = "list"
        /\ Len(outcome.value) = Len(payload.value)
        /\ \A n \in DOMAIN outcome.value :
              /\ DOMAIN outcome.value[n] = {"username", "avatar", "link"}
              /\ outcome.value[n].username = payload.value[n].login
              /\ outcome.value[n].avatar = payload.value[n].avatar_url
              /\ outcome.value[n].link = payload.value[n].html_url

C8_Witness ==
    /\ Returned("get_members")
    /\ payload.kind = "array"
    /\ Len(payload.value) = 3
    /\ \A n \in DOMAIN payload.value : Has(payload.value[n], MemberKeys)
    /\ payload.value[1].login = "b"
    /\ payload.value[2].login = "a"
    /\ payload.value[3].login = "b"
    /\ outcome.kind = "list"
    /\ Len(outcome.value) = 3

EntryKeys(op) ==
    IF op = "get_release" THEN ReleaseKeys
    ELSE IF op = "get_contributor" THEN ContributorKeys ELSE MemberKeys

EntryMalformed(op, entry) ==
    \/ ~Has(entry, EntryKeys(op))
    \/ /\ op = "get_release"
       /\ \E a \in DOMAIN entry.assets : ~Has(entry.assets[a], AssetKeys)

PayloadEntries ==
    IF payload.kind = "array" THEN payload.value ELSE <<payload.value>>

C10_Case ==
    /\ pc = "idle"
    /\ call.op \in {"get_release", "get_contributor", "get_members"}
    /\ payload.kind = (IF call.op = "get_release" /\ ~call.all THEN "object" ELSE "array")
    /\ \E n \in DOMAIN PayloadEntries : EntryMalformed(call.op, PayloadEntries[n])

\* C10: when an entry of the raw response lacks an extracted field,
\* get_release, get_contributor and get_members fail with a propagated error,
\* return no partial result, and have issued exactly one request.
C10_MalformedEntryFailsWhole ==
    C10_Case => outcome.kind = "error" /\ sent = 1

C10_Witness ==
    /\ C10_Case
    /\ call.op = "get_members"
    /\ Len(payload.value) = 3
    /\ ~EntryMalformed(call.op, payload.value[1])
    /\ EntryMalformed(call.op, payload.value[2])
    /\ outcome.kind = "error"

(***************************************************************************)
(* The driver loop of main.py.                                             *)
(***************************************************************************)
GeneratorNames == {"releases", "unknown"}

\* DefaultGeneratorProvider.get: the generator registered under the name, or
\* None.
provider_get(generator_name) ==
    IF generator_name = "releases" THEN "ReleasesGenerator" ELSE "None"

\* load_config(): an output destination and a list of API entries, each
\* with a list of generator names.
Configs ==
    [output : {"out"},
     api : SeqUpTo([generators : SeqUpTo(GeneratorNames, MaxNames)], MaxEntries)]

Done == <<0, 0>>

\* The position of the next iteration of the nested for loops at or after
\* name j of entry i; entries whose list is exhausted or empty are passed.
NextIterationBreaks(entries, i, j) ==
    IF i > Len(entries) THEN Done
    ELSE IF j > Len(entries[i].generators) THEN Done
         ELSE <<i, j>>

RECURSIVE NextIteration(_, _, _)
NextIteration(entries, i, j) ==
    IF i > Len(entries) THEN Done
    ELSE IF j > Len(entries[i].generators) THEN NextIteration(entries, i + 1, 1)
         ELSE <<i, j>>

Continue ==
    LET next == NextIteration(apis, pos[1], pos[2] + 1) IN
    /\ pos' = next
    /\ pcD' = IF next = Done THEN "done" ELSE "loop"

DriverInit ==
    /\ ApiInit
    /\ \E config \in Configs :
          /\ output = config.output
          /\ apis = config.api
          /\ pos = NextIteration(config.api, 1, 1)
          /\ pcD = IF pos = Done THEN "done" ELSE "loop"
    /\ resolved = <<>>
    /\ calls = <<>>
    /\ error = "none"

Invocation(i, j) ==
    [api |-> apis[i], output |-> output, name |-> apis[i].generators[j], at |-> <<i, j>>]

ResolveUnguarded ==
    /\ pcD = "loop"
    /\ LET generator_name == apis[pos[1]].generators[pos[2]]
           generator == provider_get(generator_name)
       IN /\ resolved' = Append(resolved, pos)
          /\ IF generator = "None"
             THEN /\ pcD' = "aborted"
                  /\ error' = "AttributeError"
                  /\ UNCHANGED <<calls, pos>>
             ELSE /\ pcD' = "generate"
                  /\ calls' = Append(calls, Invocation(pos[1], pos[2]))
                  /\ UNCHANGED <<pos, error>>
    /\ UNCHANGED <<apis, output>>
    /\ UNCHANGED apiVars

\* One iteration up to the call: resolve the name; continue when the provider
\* returns None, otherwise enter generator.generate(api, output).
Resolve ==
    /\ pcD = "loop"
    /\ LET generator_name == apis[pos[1]].generators[pos[2]]
           generator == provider_get(generator_name)
       IN /\ resolved' = Append(resolved, pos)
          /\ IF generator = "None"
             THEN /\ Continue
                  /\ UNCHANGED calls
             ELSE /\ pcD' = "generate"
                  /\ calls' = Append(calls, Invocation(pos[1], pos[2]))
                  /\ UNCHANGED pos
    /\ UNCHANGED <<apis, output, error>>
    /\ UNCHANGED apiVars

GenerateReturns ==
    /\ pcD = "generate"
    /\ Continue
    /\ UNCHANGED <<apis, output, resolved, calls, error>>
    /\ UNCHANGED apiVars

GenerateRaisesSwallowed ==
    /\ pcD = "generate"
    /\ Continue
    /\ error' = "generate"
    /\ UNCHANGED <<apis, output, resolved, calls>>
    /\ UNCHANGED apiVars

\* No guard surrounds the call: the exception leaves both loops.
GenerateRaises ==
    /\ pcD = "generate"
    /\ pcD' = "aborted"
    /\ error' = "generate"
    /\ UNCHANGED <<apis, output, pos, resolved, calls>>
    /\ UNCHANGED apiVars

DriverNext ==
    \/ Resolve
    \/ GenerateReturns
    \/ GenerateRaises

DriverSpec == DriverInit /\ [][DriverNext]_vars

\* The interpreter keeps executing the loop until it ends or an exception
\* leaves it.
DriverFairSpec == DriverSpec /\ WF_vars(DriverNext)

(***************************************************************************)
(* Properties of the driver loop.                                          *)
(***************************************************************************)
Positions ==
    {q \in (1..Len(apis)) \X (1..MaxNames + 1) : q[2] <= Len(apis[q[1]].generators)}

Before(a, b) == a[1] < b[1] \/ (a[1] = b[1] /\ a[2] < b[2])

NameAt(q) == apis[q[1]].generators[q[2]]

Resolvable(q) == NameAt(q) = "releases"

Successor(q, r) ==
    IF \E s \in Positions : Before(q, s)
    THEN r \in Positions /\ Before(q, r) /\ \A s \in Positions : Before(q, s) => ~Before(s, r)
    ELSE r = Done

SkipsAbsent ==
    (pcD = "loop" /\ ~Resolvable(pos)) =>
        /\ pcD' \in {"loop", "done"}
        /\ error' = "none"
        /\ calls' = calls
        /\ Successor(pos, pos')

\* C6: a configured name for which the provider returns None is skipped
\* without raising, and the names after it, in the same entry and in the
\* later entries, are still processed.
C6_AbsentGeneratorSkipped ==
    /\ [](pcD = "aborted" => error = "generate")
    /\ [](pcD = "done" => \A q \in Positions :
             /\ \E n \in DOMAIN resolved : resolved[n] = q
             /\ Resolvable(q) => \E n \in DOMAIN calls : calls[n].at = q)
    /\ [][SkipsAbsent]_vars

C6_Witness ==
    /\ pcD = "done"
    /\ \E u \in Positions :
          /\ ~Resolvable(u)
          /\ \E n \in DOMAIN calls : calls[n].at[1] = u[1] /\ calls[n].at[2] > u[2]
          /\ \E n \in DOMAIN calls : calls[n].at[1] > u[1]

\* C7: when a generate() invocation raises, the run aborts there: nothing
\* is resolved or invoked afterwards, in the current entry or a later one.
C7_RaiseAbortsRun ==
    /\ [](error # "none" => pcD = "aborted")
    /\ [][error # "none" => (resolved' = resolved /\ calls' = calls /\ pos' = pos)]_vars
    /\ [][pcD = "aborted" => pcD' = "aborted"]_vars

C7_Witness ==
    /\ pcD = "aborted"
    /\ error = "generate"
    /\ \E q \in Positions : q[1] = pos[1] /\ Before(pos, q) /\ Resolvable(q)
    /\ \E q \in Positions : q[1] > pos[1] /\ Resolvable(q)
    /\ calls[Len(calls)].at = pos

C9_CallsInOrder ==
    /\ \A n \in DOMAIN calls :
          /\ calls[n].at \in Positions
          /\ Resolvable(calls[n].at)
          /\ calls[n].api = apis[calls[n].at[1]]
          /\ calls[n].output = output
          /\ calls[n].name = NameAt(calls[n].at)
    /\ \A m, n \in DOMAIN calls : m < n => Before(calls[m].at, calls[n].at)
    /\ pcD = "done" =>
          /\ \A q \in Positions : Resolvable(q) => \E n \in DOMAIN calls : calls[n].at = q
          /\ Len(resolved) = Cardinality(Positions)

C9_OneAtATime ==
    calls' # calls =>
        /\ pcD = "loop"
        /\ pcD' = "generate"
        /\ Len(calls') = Len(calls) + 1

\* C9: when no generate() call raises, generate(entry, output) is invoked
\* exactly once per occurrence of a resolvable name, with its entry and the
\* configured output, one call at a time, in configuration order, and the
\* run ends after the last configured name.
C9_EachResolvableOnceInOrder ==
    /\ []C9_CallsInOrder
    /\ [][C9_OneAtATime]_vars
    /\ <>(pcD = "done" \/ error # "none")

C9_Witness ==
    /\ pcD = "done"
    /\ error = "none"
    /\ Len(calls) = 3
    /\ \E q \in Positions : ~Resolvable(q)
    /\ calls[1].at[1] = 1
    /\ calls[3].at[1] = 2

====
